---- MODULE Spec2Model ----
(***************************************************************************)
(* Model of scripts/update-progress.py: the issue fetch, the three pure    *)
(* aggregations (get_project_metrics, calculate_velocity,                  *)
(* get_phase_status) and update_progress_file, the read/modify/write of    *)
(* progress.yaml.  Time is in seconds.  An issue title is a sequence of    *)
(* words and "title in i['title']" is contiguous containment of words.     *)
(* The file is a sequence of cells: one cell per key, and one cell per     *)
(* character of a number or per string scalar.                             *)
(***************************************************************************)
EXTENDS Integers, Sequences, FiniteSets, TLC

\* ------------------------------------------------------------------ bounds
MaxIssues == 2        \* longest fetched issue list of the aggregation runs
MaxRunIssues == 3     \* longest fetched issue list of the updater runs
MaxTicks == 1         \* seconds the clock may advance
MaxChanges == 1       \* upstream edits between fetches
MaxRaceIssues == 1    \* longest issue list of the concurrent runs

\* --------------------------------------------------------- program constants
SevenDays == 7 * 24 * 60 * 60
VelocityDays == 7
Now0 == 700000        \* the clock at the start of a behaviour

Procs == {1, 2}

\* ------------------------------------------------------------ static tables
phase_mapping ==
  << << <<"Core", "Data", "Models">>, <<"Thread-Safe", "Message", "Store">>,
        <<"Mock", "SNS", "Endpoint">>, <<"Result", "Pattern", "Integration">> >>,
     << <<"Basic", "Test", "Client">>, <<"Verification", "Methods">>,
        <<"TUnit", "Test", "Helpers">> >>,
     << <<"Query", "Endpoints">>, <<"Advanced", "Queries">>,
        <<"ASP.NET", "Core", "Integration">> >>,
     << <<"Basic", "Web", "UI">>, <<"Advanced", "UI", "Features">>,
        <<"Developer", "Tools">> >>,
     << <<"Aspire", "Resource">>, <<"Aspire", "Dashboard">> >>,
     << <<"Performance", "Optimization">>, <<"NuGet", "Package">>,
        <<"Documentation">> >> >>

phase_names ==
  << "Core Foundation", "Testing Infrastructure", "API & Integration",
     "Developer Experience", "Platform Integration", "Production Readiness" >>

\* ------------------------------------------------------------ issue records
\* closed_at as the API delivers it: null, or a text that is either not a
\* date or an ISO-8601 date (wall-clock seconds and a zone suffix).
NullAt == [kind |-> "null", wall |-> 0, suffix |-> ""]
BadAt == [kind |-> "bad", wall |-> 0, suffix |-> ""]
IsoAt(w, s) == [kind |-> "iso", wall |-> w, suffix |-> s]

Issue(t, st, ls, ca, pr) ==
  [title |-> t, state |-> st, labels |-> ls, closed_at |-> ca, pull_request |-> pr]

\* i.get("pull_request"): the marker is an object when present
HasPullRequest(i) == i.pull_request

HasLabel(i, name) == \E label \in i.labels : label = name

\* title in i["title"]
Contains(title, t) ==
  \E k \in 0..(Len(title) - Len(t)) : SubSeq(title, k + 1, k + Len(t)) = t

\* ------------------------------------------------------ get_project_metrics
IsTask(i) == ~HasPullRequest(i)
IsCompleted(i) == i.state = "closed" /\ ~HasPullRequest(i)
IsInProgress(i) == i.state = "open" /\ HasLabel(i, "in-progress")
\* the state test left out
IsBlocked_AnyState(i) == HasLabel(i, "blocked")

IsBlocked(i) == i.state = "open" /\ HasLabel(i, "blocked")

get_project_metrics(issues) ==
  [total_tasks |-> Len(SelectSeq(issues, IsTask)),
   completed_tasks |-> Len(SelectSeq(issues, IsCompleted)),
   in_progress_tasks |-> Len(SelectSeq(issues, IsInProgress)),
   blocked_tasks |-> Len(SelectSeq(issues, IsBlocked))]

\* ------------------------------------------------------- calculate_velocity
\* .replace("Z", "+00:00")
ReplaceZ(suffix) == IF suffix = "Z" THEN "+00:00" ELSE suffix

\* the zones datetime.fromisoformat reads, as seconds east of UTC
ZoneOffset(suffix) ==
  CASE suffix = "+00:00" -> 0
    [] suffix = "+01:00" -> 3600
    [] OTHER -> -1

\* fromisoformat accepts the text
Parses(ca) == ca.kind = "iso" /\ ZoneOffset(ReplaceZ(ca.suffix)) >= 0

\* datetime.fromisoformat(...).timestamp()
Timestamp(ca) == ca.wall - ZoneOffset(ReplaceZ(ca.suffix))

closed_issues(issues) == SelectSeq(issues, IsCompleted)

\* unreadable dates skipped instead of raised
VelocityRaises_Never(issues) == FALSE

\* the comprehension of line 52 raises on the first text it cannot parse
VelocityRaises(issues) ==
  \E k \in 1..Len(closed_issues(issues)) : ~Parses(closed_issues(issues)[k].closed_at)

\* the window closed at its lower end
IsRecent_Inclusive(i, now) == Timestamp(i.closed_at) >= now - SevenDays

IsRecent(i, now) == Timestamp(i.closed_at) > now - SevenDays

\* the result in sevenths of a task per day: len(recent_closed) / 7.0
calculate_velocity(issues, now) ==
  IF Len(closed_issues(issues)) = 0 THEN 0
  ELSE LET recent(i) == IsRecent(i, now)
       IN  Len(SelectSeq(closed_issues(issues), recent))

\* round(velocity, 2), in hundredths; n/7 is never half way between two
Round2(sevenths) == (200 * sevenths + VelocityDays) \div (2 * VelocityDays)

\* --------------------------------------------------------- get_phase_status
PhaseNums == 1..Len(phase_mapping)

MatchesPhase(i, n) ==
  \E k \in 1..Len(phase_mapping[n]) : Contains(i.title, phase_mapping[n][k])

\* the total > 0 test left out
PhaseStatus_EmptyCompleted(total, completed, anyInProgress) ==
  IF completed = total THEN "completed"
  ELSE IF completed > 0 THEN "in_progress"
  ELSE IF anyInProgress THEN "in_progress"
  ELSE "not_started"

PhaseStatus(total, completed, anyInProgress) ==
  IF completed = total /\ total > 0 THEN "completed"
  ELSE IF completed > 0 THEN "in_progress"
  ELSE IF anyInProgress THEN "in_progress"
  ELSE "not_started"

PhaseRecord(issues, n) ==
  LET inPhase(i) == MatchesPhase(i, n)
      phase_issues == SelectSeq(issues, inPhase)
      closed(i) == i.state = "closed"
      total == Len(phase_issues)
      completed == Len(SelectSeq(phase_issues, closed))
  IN  [phase |-> n,
       name |-> phase_names[n],
       status |-> PhaseStatus(total, completed,
                    \E k \in 1..Len(phase_issues) : IsInProgress(phase_issues[k])),
       tasks_total |-> total,
       tasks_completed |-> completed]

get_phase_status(issues) == [n \in PhaseNums |-> PhaseRecord(issues, n)]

\* ------------------------------------------------------- the progress file
\* keys of the metrics mapping and of metrics.velocity, in file order
MetricsOrder ==
  << "total_tasks", "completed_tasks", "in_progress_tasks", "blocked_tasks",
     "velocity", "test_coverage" >>
VelocityOrder == << "current", "target" >>
MetricNames == { "total_tasks", "completed_tasks", "in_progress_tasks", "blocked_tasks" }

KeyCell ==
  [ last_updated |-> "current_status.last_updated:",
    phase |-> "current_status.phase:",
    phase_name |-> "current_status.phase_name:",
    health |-> "current_status.health:",
    total_tasks |-> "metrics.total_tasks:",
    completed_tasks |-> "metrics.completed_tasks:",
    in_progress_tasks |-> "metrics.in_progress_tasks:",
    blocked_tasks |-> "metrics.blocked_tasks:",
    test_coverage |-> "metrics.test_coverage:",
    current |-> "metrics.velocity.current:",
    target |-> "metrics.velocity.target:",
    p_phase |-> "phases.phase:",
    p_name |-> "phases.name:",
    p_status |-> "phases.status:",
    p_total |-> "phases.tasks_total:",
    p_completed |-> "phases.tasks_completed:" ]

KeyCells == { KeyCell[k] : k \in DOMAIN KeyCell }
IsKey(c) == c \in KeyCells

DigitChar == << "0", "1", "2", "3", "4", "5", "6", "7", "8", "9" >>
DigitVal(c) == (CHOOSE d \in 1..10 : DigitChar[d] = c) - 1
IsDigit(c) == \E d \in 1..10 : DigitChar[d] = c

RECURSIVE Digits(_)
Digits(n) ==
  IF n < 10 THEN << DigitChar[n + 1] >>
  ELSE Digits(n \div 10) \o << DigitChar[(n % 10) + 1] >>

\* the text of a float given in hundredths: 0.0, 0.14, 0.5, 1.0
FloatCells(h) ==
  Digits(h \div 100) \o << "." >> \o
  (IF (h % 100) % 10 = 0 THEN << DigitChar[((h % 100) \div 10) + 1] >>
   ELSE << DigitChar[((h % 100) \div 10) + 1], DigitChar[((h % 100) % 10) + 1] >>)

RECURSIVE Flatten(_)
Flatten(ss) == IF ss = << >> THEN << >> ELSE Head(ss) \o Flatten(Tail(ss))

VelocityCells(v) ==
  Flatten([k \in 1..Len(VelocityOrder) |->
    IF VelocityOrder[k] \in DOMAIN v
    THEN << KeyCell[VelocityOrder[k]] >> \o FloatCells(v[VelocityOrder[k]])
    ELSE << >>])

MetricsCells(m) ==
  Flatten([k \in 1..Len(MetricsOrder) |->
    IF MetricsOrder[k] \notin DOMAIN m THEN << >>
    ELSE IF MetricsOrder[k] = "velocity" THEN VelocityCells(m["velocity"])
    ELSE << KeyCell[MetricsOrder[k]] >> \o Digits(m[MetricsOrder[k]])])

PhaseCells(ph) ==
  << KeyCell.p_phase >> \o Digits(ph.phase) \o
  << KeyCell.p_name, ph.name, KeyCell.p_status, ph.status >> \o
  << KeyCell.p_total >> \o Digits(ph.tasks_total) \o
  << KeyCell.p_completed >> \o Digits(ph.tasks_completed)

StatusCells(cs) ==
  << KeyCell.last_updated >> \o Digits(cs.last_updated) \o
  << KeyCell.phase >> \o Digits(cs.phase) \o
  << KeyCell.phase_name, cs.phase_name, KeyCell.health, cs.health >>

\* yaml.dump(progress, default_flow_style=False, sort_keys=False)
Serialize(doc) ==
  StatusCells(doc.current_status) \o MetricsCells(doc.metrics) \o
  Flatten([n \in 1..Len(doc.phases) |-> PhaseCells(doc.phases[n])])

\* ---- yaml.safe_load
RECURSIVE DigitsToInt(_)
DigitsToInt(cs) ==
  IF Len(cs) = 0 THEN 0
  ELSE 10 * DigitsToInt(SubSeq(cs, 1, Len(cs) - 1)) + DigitVal(cs[Len(cs)])

AllDigits(cs) == Len(cs) > 0 /\ \A k \in 1..Len(cs) : IsDigit(cs[k])

IsFloatText(cs) ==
  \E d \in 2..(Len(cs) - 1) :
    /\ cs[d] = "."
    /\ AllDigits(SubSeq(cs, 1, d - 1))
    /\ AllDigits(SubSeq(cs, d + 1, Len(cs)))
    /\ Len(cs) - d <= 2

FloatToHundredths(cs) ==
  LET d == CHOOSE k \in 1..Len(cs) : cs[k] = "."
      frac == SubSeq(cs, d + 1, Len(cs))
  IN  100 * DigitsToInt(SubSeq(cs, 1, d - 1)) +
      (IF Len(frac) = 1 THEN 10 * DigitsToInt(frac) ELSE DigitsToInt(frac))

KeyPositions(cells) == { i \in 1..Len(cells) : IsKey(cells[i]) }

\* the cells of the value that follows the key at position i
ValueAt(cells, i) ==
  LET later == { j \in KeyPositions(cells) : j > i }
      stop == IF later = {} THEN Len(cells) + 1
              ELSE CHOOSE j \in later : \A q \in later : j <= q
  IN  SubSeq(cells, i + 1, stop - 1)

\* the position of the n-th cell that holds key
NthPos(cells, key, n) ==
  CHOOSE i \in 1..Len(cells) :
    /\ cells[i] = key
    /\ Cardinality({ j \in 1..i : cells[j] = key }) = n

Occurs(cells, key) == Cardinality({ j \in 1..Len(cells) : cells[j] = key })

IntOf(cells, key, n) == DigitsToInt(ValueAt(cells, NthPos(cells, key, n)))
FloatOf(cells, key) == FloatToHundredths(ValueAt(cells, NthPos(cells, key, 1)))
TextOf(cells, key, n) == ValueAt(cells, NthPos(cells, key, n))[1]

\* every key is followed by a value of the kind the key holds
WellFormed(cells) ==
  /\ Len(cells) > 0 /\ IsKey(cells[1])
  /\ \A k \in { "last_updated", "phase", "phase_name", "health" } :
       Occurs(cells, KeyCell[k]) = 1
  /\ \A k \in { "current", "target", "test_coverage" } \cup MetricNames :
       Occurs(cells, KeyCell[k]) <= 1
  /\ Occurs(cells, KeyCell.current) = 1
  /\ \A k \in { "p_name", "p_status", "p_total", "p_completed" } :
       Occurs(cells, KeyCell[k]) = Occurs(cells, KeyCell.p_phase)
  /\ \A i \in KeyPositions(cells) :
       LET v == ValueAt(cells, i)
       IN  IF cells[i] \in { KeyCell.phase_name, KeyCell.health, KeyCell.p_name,
                             KeyCell.p_status }
           THEN Len(v) = 1 /\ ~IsDigit(v[1]) /\ v[1] # "."
           ELSE IF cells[i] \in { KeyCell.current, KeyCell.target }
           THEN IsFloatText(v)
           ELSE AllDigits(v)

Decode(cells) ==
  [ current_status |->
      [ last_updated |-> IntOf(cells, KeyCell.last_updated, 1),
        phase |-> IntOf(cells, KeyCell.phase, 1),
        phase_name |-> TextOf(cells, KeyCell.phase_name, 1),
        health |-> TextOf(cells, KeyCell.health, 1) ],
    metrics |->
      [ k \in { x \in MetricNames \cup { "test_coverage" } : Occurs(cells, KeyCell[x]) = 1 }
              \cup { "velocity" } |->
        IF k = "velocity"
        THEN [ vk \in { x \in { "current", "target" } : Occurs(cells, KeyCell[x]) = 1 } |->
               FloatOf(cells, KeyCell[vk]) ]
        ELSE IntOf(cells, KeyCell[k], 1) ],
    phases |->
      [ n \in 1..Occurs(cells, KeyCell.p_phase) |->
        [ phase |-> IntOf(cells, KeyCell.p_phase, n),
          name |-> TextOf(cells, KeyCell.p_name, n),
          status |-> TextOf(cells, KeyCell.p_status, n),
          tasks_total |-> IntOf(cells, KeyCell.p_total, n),
          tasks_completed |-> IntOf(cells, KeyCell.p_completed, n) ] ] ]

\* what yaml.safe_load gives: nothing for an empty file, the document for a
\* file yaml.dump wrote, and otherwise no document this program can update
Loaded(k, d) == [kind |-> k, doc |-> d]
NoDoc == << >>

Load(cells) ==
  IF cells = << >> THEN Loaded("none", NoDoc)
  ELSE IF WellFormed(cells) /\ Serialize(Decode(cells)) = cells
       THEN Loaded("doc", Decode(cells))
       ELSE Loaded("malformed", NoDoc)

\* ---------------------------------------------------- update_progress_file
\* the counts added to the ones in the file
UpdateMetrics_Accumulate(old, new) ==
  [k \in DOMAIN old \cup DOMAIN new |->
    IF k \in DOMAIN new
    THEN new[k] + (IF k \in DOMAIN old THEN old[k] ELSE 0)
    ELSE old[k]]

\* progress["metrics"].update(metrics)
UpdateMetrics(old, new) ==
  [k \in DOMAIN old \cup DOMAIN new |-> IF k \in DOMAIN new THEN new[k] ELSE old[k]]

\* the velocity mapping replaced, not updated
SetVelocityCurrent_Replace(m, velocity) ==
  [m EXCEPT !["velocity"] = [k \in {"current"} |-> Round2(velocity)]]

\* progress["metrics"]["velocity"]["current"] = round(velocity, 2)
SetVelocityCurrent(m, velocity) ==
  [m EXCEPT !["velocity"] =
     [k \in DOMAIN m["velocity"] \cup {"current"} |->
        IF k = "current" THEN Round2(velocity) ELSE m["velocity"][k]]]

\* the loop without its break
FirstInProgress_NoBreak(phases) ==
  IF \E n \in 1..Len(phases) : phases[n].status = "in_progress"
  THEN CHOOSE n \in 1..Len(phases) :
         /\ phases[n].status = "in_progress"
         /\ \A q \in (n + 1)..Len(phases) : phases[q].status # "in_progress"
  ELSE 0

\* the index the loop of line 123 breaks at, 0 when it runs to the end
FirstInProgress(phases) ==
  IF \E n \in 1..Len(phases) : phases[n].status = "in_progress"
  THEN CHOOSE n \in 1..Len(phases) :
         /\ phases[n].status = "in_progress"
         /\ \A q \in 1..(n - 1) : phases[q].status # "in_progress"
  ELSE 0

CurrentPhase(cs, phases) ==
  IF FirstInProgress(phases) = 0 THEN cs
  ELSE [cs EXCEPT !.phase = phases[FirstInProgress(phases)].phase,
                  !.phase_name = phases[FirstInProgress(phases)].name]

\* the red threshold off by one
Health_OffByOne(blocked_tasks) ==
  IF blocked_tasks >= 2 THEN "red"
  ELSE IF blocked_tasks > 0 THEN "yellow"
  ELSE "green"

Health(blocked_tasks) ==
  IF blocked_tasks > 2 THEN "red"
  ELSE IF blocked_tasks > 0 THEN "yellow"
  ELSE "green"

\* lines 117-135 on the loaded document
Merged(doc, metrics, velocity, phases, now) ==
  LET m == SetVelocityCurrent(UpdateMetrics(doc.metrics, metrics), velocity)
      cs == CurrentPhase([doc.current_status EXCEPT !.last_updated = now], phases)
  IN  [ current_status |-> [cs EXCEPT !.health = Health(m["blocked_tasks"])],
        metrics |-> m,
        phases |-> phases ]

\* the file opened for appending
Overlay_Append(old, new) == old \o new

\* a write of new at offset 0 of a file holding old
Overlay(old, new) == new \o SubSeq(old, Len(new) + 1, Len(old))

\* ------------------------------------------------------------------ inputs
TCore == << "Core", "Data", "Models" >>
TClient == << "Fix", "Basic", "Test", "Client" >>
TNone == << "Fix", "typo" >>
TBoth == << "Documentation", "for", "Query", "Endpoints" >>

Boundary == Now0 - SevenDays

ClosedAts ==
  { BadAt, IsoAt(Boundary, "Z"), IsoAt(Boundary + 1, "Z"),
    IsoAt(Boundary + 3602, "+01:00") }

\* the issues of the aggregation runs
FnPool ==
  { Issue(t, "open", ls, NullAt, pr) :
      t \in { TNone, TBoth }, ls \in { {}, {"in-progress"}, {"blocked", "bug"} },
      pr \in BOOLEAN }
  \cup
  { Issue(t, "closed", {"in-progress", "blocked"}, ca, pr) :
      t \in { TCore, TBoth }, ca \in ClosedAts, pr \in BOOLEAN }

\* the issues of the updater runs
RunPool ==
  { Issue(TCore, "closed", {}, IsoAt(Boundary + 1, "Z"), FALSE),
    Issue(TCore, "open", {"blocked"}, NullAt, FALSE),
    Issue(TClient, "open", {"in-progress"}, NullAt, TRUE),
    Issue(TNone, "closed", {}, BadAt, FALSE),
    Issue(TNone, "closed", {"blocked"}, NullAt, FALSE) }

RacePool ==
  { Issue(TCore, "closed", {}, IsoAt(Boundary + 1, "Z"), FALSE),
    Issue(TClient, "open", {"blocked"}, NullAt, FALSE) }

SeqsUpTo(S, n) == UNION { [1..k -> S] : k \in 0..n }

\* response.json(): the list of issues, or the error object of a refused request
Resp(list) == [is_list |-> TRUE, items |-> list]
ErrorDict == [is_list |-> FALSE, items |-> << "message", "documentation_url" >>]

NotStarted ==
  [n \in PhaseNums |->
    [phase |-> n, name |-> phase_names[n], status |-> "not_started",
     tasks_total |-> 0, tasks_completed |-> 0]]

InitialDocs ==
  { [ current_status |->
        [last_updated |-> Now0 - 86400, phase |-> 1, phase_name |-> "Core Foundation",
         health |-> "green"],
      metrics |->
        [total_tasks |-> 0, completed_tasks |-> 0, in_progress_tasks |-> 0,
         blocked_tasks |-> 0, velocity |-> [current |-> 0, target |-> 200],
         test_coverage |-> 85],
      phases |-> NotStarted ],
    [ current_status |->
        [last_updated |-> Now0 - 3600, phase |-> 4, phase_name |-> "Developer Experience",
         health |-> "red"],
      metrics |-> [total_tasks |-> 12, velocity |-> [current |-> 57]],
      phases |-> << >> ] }

\* ------------------------------------------------------------------- state
VARIABLES
  disk,       \* the cells of context/TopicTracker/progress.yaml
  now,        \* the clock
  upstream,   \* the issues the tracker holds
  changes,    \* edits made to the tracker
  pc,         \* where each invocation stands
  progress,   \* the loaded document, updated in place
  loaded,     \* the document as line 108 loaded it
  issues,     \* the fetched response
  metrics, velocity, phases,
  err,        \* the step an invocation failed at
  orig,       \* the file when the invocation started
  vnow,       \* the clock calculate_velocity read
  prev,       \* the previous invocation of the slot: its response and document
  log         \* the opens and writes of the file, in order

vars == << disk, now, upstream, changes, pc, progress, loaded, issues, metrics,
           velocity, phases, err, orig, vnow, prev, log >>

locals == << progress, issues, metrics, velocity, phases >>
env == << now, upstream, changes >>

NoPrev == [ran |-> FALSE, issues |-> Resp(<< >>), doc |-> NoDoc, vnow |-> 0]

InitLocals ==
  /\ progress = [p \in Procs |-> Loaded("none", NoDoc)]
  /\ loaded = progress
  /\ metrics = [p \in Procs |-> get_project_metrics(<< >>)]
  /\ velocity = [p \in Procs |-> 0]
  /\ phases = [p \in Procs |-> << >>]
  /\ err = [p \in Procs |-> "none"]
  /\ vnow = [p \in Procs |-> 0]
  /\ prev = [p \in Procs |-> NoPrev]
  /\ log = << >>
  /\ now = Now0
  /\ changes = 0

\* one scheduler slot, invoked twice in succession
Init ==
  /\ InitLocals
  /\ \E d \in InitialDocs : disk = Serialize(d)
  /\ upstream \in SeqsUpTo(RunPool, MaxRunIssues)
  /\ issues = [p \in Procs |-> Resp(<< >>)]
  /\ pc = [p \in Procs |-> IF p = 1 THEN "read" ELSE "idle"]
  /\ orig = [p \in Procs |-> disk]

\* ------------------------------------------------------------------ steps
Goto(p, where) == pc' = [pc EXCEPT ![p] = where]
Fail(p, where) == pc' = [pc EXCEPT ![p] = "failed"] /\ err' = [err EXCEPT ![p] = where]

\* the file opened once, for reading and writing, and emptied on the spot
Read_Truncates(p) ==
  /\ pc[p] = "read"
  /\ progress' = [progress EXCEPT ![p] = Load(disk)]
  /\ loaded' = [loaded EXCEPT ![p] = Load(disk)]
  /\ disk' = << >>
  /\ IF progress'[p].kind = "malformed"
     THEN Fail(p, "read")
     ELSE Goto(p, "fetch") /\ UNCHANGED err
  /\ UNCHANGED << env, issues, metrics, velocity, phases, orig, vnow, prev, log >>

\* lines 107-108
Read(p) ==
  /\ pc[p] = "read"
  /\ progress' = [progress EXCEPT ![p] = Load(disk)]
  /\ loaded' = [loaded EXCEPT ![p] = Load(disk)]
  /\ IF progress'[p].kind = "malformed"
     THEN Fail(p, "read")
     ELSE Goto(p, "fetch") /\ UNCHANGED err
  /\ UNCHANGED << disk, env, issues, metrics, velocity, phases, orig, vnow, prev, log >>

\* open(progress_file, 'r') raises: no file, or no permission
ReadFails(p) ==
  /\ pc[p] = "read"
  /\ Fail(p, "read")
  /\ UNCHANGED << disk, env, locals, orig, loaded, vnow, prev, log >>

\* line 111: get_issues
Fetch(p) ==
  /\ pc[p] = "fetch"
  /\ \E r \in { Resp(upstream), ErrorDict } : issues' = [issues EXCEPT ![p] = r]
  /\ Goto(p, "metrics")
  /\ UNCHANGED << disk, env, progress, metrics, velocity, phases, err, orig, loaded, vnow,
                  prev, log >>

\* requests.get or response.json raises
FetchFails(p) ==
  /\ pc[p] = "fetch"
  /\ Fail(p, "fetch")
  /\ UNCHANGED << disk, env, locals, orig, loaded, vnow, prev, log >>

\* iterating the error object gives its keys, and a str has no get
MetricsRaises(resp) == ~resp.is_list /\ Len(resp.items) > 0

\* line 112
Metrics(p) ==
  /\ pc[p] = "metrics"
  /\ IF MetricsRaises(issues[p])
     THEN Fail(p, "metrics") /\ UNCHANGED metrics
     ELSE /\ metrics' = [metrics EXCEPT ![p] = get_project_metrics(issues[p].items)]
          /\ Goto(p, "velocity") /\ UNCHANGED err
  /\ UNCHANGED << disk, env, progress, issues, velocity, phases, orig, loaded, vnow, prev, log >>

\* line 113
Velocity(p) ==
  /\ pc[p] = "velocity"
  /\ vnow' = [vnow EXCEPT ![p] = now]
  /\ IF VelocityRaises(issues[p].items)
     THEN Fail(p, "velocity") /\ UNCHANGED velocity
     ELSE /\ velocity' = [velocity EXCEPT ![p] = calculate_velocity(issues[p].items, now)]
          /\ Goto(p, "phases") /\ UNCHANGED err
  /\ UNCHANGED << disk, env, progress, issues, metrics, phases, orig, loaded, prev, log >>

\* line 114
Phases(p) ==
  /\ pc[p] = "phases"
  /\ phases' = [phases EXCEPT ![p] = get_phase_status(issues[p].items)]
  /\ Goto(p, "merge")
  /\ UNCHANGED << disk, env, progress, issues, metrics, velocity, err, orig, loaded, vnow,
                  prev, log >>

\* lines 117-135; None is not subscriptable
Merge(p) ==
  /\ pc[p] = "merge"
  /\ IF progress[p].kind # "doc"
     THEN Fail(p, "merge") /\ UNCHANGED progress
     ELSE /\ progress' = [progress EXCEPT ![p] =
               Loaded("doc", Merged(progress[p].doc, metrics[p], velocity[p], phases[p], now))]
          /\ Goto(p, "open") /\ UNCHANGED err
  /\ UNCHANGED << disk, env, issues, metrics, velocity, phases, orig, loaded, vnow, prev, log >>

\* line 138: open(progress_file, 'w') truncates the file
Open(p) ==
  /\ pc[p] = "open"
  /\ disk' = << >>
  /\ log' = Append(log, << p, "open" >>)
  /\ Goto(p, "dump")
  /\ UNCHANGED << env, locals, err, orig, loaded, vnow, prev >>

\* open(progress_file, 'w') raises before it truncates
OpenFails(p) ==
  /\ pc[p] = "open"
  /\ Fail(p, "open")
  /\ UNCHANGED << disk, env, locals, orig, loaded, vnow, prev, log >>

\* line 139 and the close of the with block: the text goes out at offset 0
Dump(p) ==
  /\ pc[p] = "dump"
  /\ disk' = Overlay(disk, Serialize(progress[p].doc))
  /\ log' = Append(log, << p, "write" >>)
  /\ Goto(p, "done")
  /\ UNCHANGED << env, locals, err, orig, loaded, vnow, prev >>

\* how much of a text of n cells is out when the write raises: nothing, a
\* part, or all but the last cell
PartialCuts(n) == { 0, n \div 2, n - 1 }

\* the write raises after k cells went out
DumpFails(p) ==
  /\ pc[p] = "dump"
  /\ \E k \in PartialCuts(Len(Serialize(progress[p].doc))) :
       disk' = Overlay(disk, SubSeq(Serialize(progress[p].doc), 1, k))
  /\ log' = Append(log, << p, "partial" >>)
  /\ Fail(p, "dump")
  /\ UNCHANGED << env, locals, orig, loaded, vnow, prev >>

\* the scheduler invokes the script a second time, after a run that succeeded
Rerun(p) ==
  /\ pc[p] = "done"
  /\ ~prev[p].ran
  /\ prev' = [prev EXCEPT ![p] =
       [ran |-> TRUE, issues |-> issues[p], doc |-> progress[p].doc, vnow |-> vnow[p]]]
  /\ orig' = [orig EXCEPT ![p] = disk]
  /\ log' = << >>
  /\ Goto(p, "read")
  /\ UNCHANGED << disk, env, locals, loaded, err, vnow >>

\* the clock is read by calculate_velocity and by the merge, the tracker by
\* the fetch: the clock moves and the tracker changes in front of those steps
ClockRead == \E p \in Procs : pc[p] \in { "velocity", "merge" }
TrackerRead == \E p \in Procs : pc[p] = "fetch"

Tick ==
  /\ ClockRead
  /\ now < Now0 + MaxTicks
  /\ now' = now + 1
  /\ UNCHANGED << disk, upstream, changes, pc, locals, err, orig, loaded, vnow, prev, log >>

\* an open issue of the tracker is closed
TrackerChange ==
  /\ TrackerRead
  /\ changes < MaxChanges
  /\ \E k \in 1..Len(upstream) :
       /\ upstream[k].state = "open"
       /\ upstream' = [upstream EXCEPT ![k].state = "closed",
                                       ![k].closed_at = IsoAt(now, "Z")]
  /\ changes' = changes + 1
  /\ UNCHANGED << disk, now, pc, locals, err, orig, loaded, vnow, prev, log >>

Next ==
  \/ Tick
  \/ TrackerChange
  \/ \E p \in Procs :
       \/ Read(p) \/ ReadFails(p) \/ Fetch(p) \/ FetchFails(p)
       \/ Metrics(p) \/ Velocity(p) \/ Phases(p) \/ Merge(p)
       \/ Open(p) \/ OpenFails(p) \/ Dump(p) \/ DumpFails(p)
       \/ Rerun(p)

Spec == Init /\ [][Next]_vars

\* the aggregations alone, on a response already fetched
InitFn ==
  /\ InitLocals
  /\ disk = << >>
  /\ upstream = << >>
  /\ \E r \in { Resp(s) : s \in SeqsUpTo(FnPool, MaxIssues) } \cup { ErrorDict } :
       issues = [p \in Procs |-> r]
  /\ pc = [p \in Procs |-> IF p = 1 THEN "metrics" ELSE "idle"]
  /\ orig = [p \in Procs |-> disk]

NextFn ==
  \/ Tick
  \/ \E p \in Procs : Metrics(p) \/ Velocity(p) \/ Phases(p)

SpecFn == InitFn /\ [][NextFn]_vars

\* two invocations at once on the same file
InitRace ==
  /\ InitLocals
  /\ \E d \in InitialDocs : disk = Serialize(d)
  /\ upstream \in SeqsUpTo(RacePool, MaxRaceIssues)
  /\ issues = [p \in Procs |-> Resp(<< >>)]
  /\ pc = [p \in Procs |-> "read"]
  /\ orig = [p \in Procs |-> disk]

NextRace ==
  \/ Tick
  \/ TrackerChange
  \/ \E p \in Procs :
       \/ Read(p) \/ ReadFails(p) \/ Fetch(p) \/ FetchFails(p)
       \/ Metrics(p) \/ Velocity(p) \/ Phases(p) \/ Merge(p)
       \/ Open(p) \/ OpenFails(p) \/ Dump(p) \/ DumpFails(p)

SpecRace == InitRace /\ [][NextRace]_vars

\* ------------------------------------------------------------------ claims
Idx(s) == 1..Len(s)
IsPrefix(a, b) == Len(a) <= Len(b) /\ SubSeq(b, 1, Len(a)) = a

Finished(p) == pc[p] \in { "done", "failed" }
MetricsDone(p) ==
  pc[p] \in { "velocity", "phases", "merge" } \/ (pc[p] = "failed" /\ err[p] = "velocity")
VelocityDone(p) == pc[p] \in { "phases", "merge" }

\* the document the invocation read, the one it wrote, and that it is on disk
ReadDoc(p) == loaded[p].doc
WrittenDoc(p) == progress[p].doc
Written(p) == disk = Serialize(progress[p].doc)

\* C1: get_project_metrics counts, over the positions of the issue list,
\* total_tasks = entries without a pull-request marker, completed_tasks =
\* closed entries without one, in_progress_tasks = open entries labeled
\* "in-progress", blocked_tasks = open entries labeled "blocked" (these two
\* with pull requests); completed_tasks <= total_tasks; the empty list gives
\* all zeros.
C1_MetricsCounts ==
  \A p \in Procs : MetricsDone(p) =>
    LET s == issues[p].items
        m == metrics[p]
    IN  /\ m.total_tasks = Cardinality({ k \in Idx(s) : ~s[k].pull_request })
        /\ m.completed_tasks =
             Cardinality({ k \in Idx(s) : s[k].state = "closed" /\ ~s[k].pull_request })
        /\ m.in_progress_tasks =
             Cardinality({ k \in Idx(s) : s[k].state = "open" /\ "in-progress" \in s[k].labels })
        /\ m.blocked_tasks =
             Cardinality({ k \in Idx(s) : s[k].state = "open" /\ "blocked" \in s[k].labels })
        /\ m.completed_tasks <= m.total_tasks
        /\ (s = << >> => /\ m.total_tasks = 0 /\ m.completed_tasks = 0
                         /\ m.in_progress_tasks = 0 /\ m.blocked_tasks = 0)

\* a list of two where a pull request is counted as in progress and as
\* blocked, but not as a task
C1_Witness ==
  /\ MetricsDone(1)
  /\ Len(issues[1].items) = 2
  /\ metrics[1].total_tasks = 1 /\ metrics[1].completed_tasks = 1
  /\ metrics[1].blocked_tasks = 1
  /\ \E k \in 1..2 : issues[1].items[k].pull_request /\ "blocked" \in issues[1].items[k].labels

\* C2: get_phase_status returns six records, phases 1..6 in order; a phase
\* is "completed" exactly when tasks_total > 0 and tasks_completed =
\* tasks_total, otherwise "in_progress" exactly when tasks_completed > 0 or a
\* matching issue is open and labeled "in-progress", otherwise
\* "not_started"; a phase with tasks_total = 0 is "not_started".
C2_PhaseStatus ==
  \A p \in Procs : pc[p] = "merge" =>
    LET s == issues[p].items
        ph == phases[p]
    IN  /\ Len(ph) = 6
        /\ \A n \in 1..Len(ph) :
             LET match == { k \in Idx(s) : MatchesPhase(s[k], n) }
                 total == Cardinality(match)
                 done == Cardinality({ k \in match : s[k].state = "closed" })
                 working == \E k \in match :
                              s[k].state = "open" /\ "in-progress" \in s[k].labels
             IN  /\ ph[n].phase = n
                 /\ ph[n].name = phase_names[n]
                 /\ ph[n].tasks_total = total /\ ph[n].tasks_completed = done
                 /\ ph[n].status \in { "completed", "in_progress", "not_started" }
                 /\ (ph[n].status = "completed") <=> (total > 0 /\ done = total)
                 /\ (ph[n].status = "in_progress") <=>
                      (~(total > 0 /\ done = total) /\ (done > 0 \/ working))
                 /\ (total = 0 => ph[n].status = "not_started")

\* one phase completed, one in progress by a label, one in progress by a
\* closed issue among open ones, the others empty
C2_Witness ==
  /\ pc[1] = "merge"
  /\ phases[1][1].status = "completed"
  /\ phases[1][3].status = "in_progress" /\ phases[1][3].tasks_completed = 0
  /\ phases[1][2].status = "not_started" /\ phases[1][2].tasks_total = 0

\* C9: calculate_velocity returns, in sevenths, the number of closed
\* non-pull-request issues closed strictly later than now - 7 days: it is
\* never negative, 0 when there is no closed non-pull-request issue, and an
\* issue closed 7 days before now or earlier is not counted.
C9_Velocity ==
  \A p \in Procs : VelocityDone(p) =>
    LET s == issues[p].items
        tasks == { k \in Idx(s) : s[k].state = "closed" /\ ~s[k].pull_request }
        utc(k) == s[k].closed_at.wall -
                  (IF s[k].closed_at.suffix = "+01:00" THEN 3600 ELSE 0)
    IN  /\ velocity[p] = Cardinality({ k \in tasks : utc(k) > vnow[p] - 604800 })
        /\ velocity[p] >= 0
        /\ (tasks = {} => velocity[p] = 0)
        /\ velocity[p] + Cardinality({ k \in tasks : utc(k) <= vnow[p] - 604800 })
             = Cardinality(tasks)

\* two closed tasks, one closed 7 days before now to the second and not
\* counted, one closed a second later and counted
C9_Witness ==
  /\ VelocityDone(1)
  /\ velocity[1] = 1
  /\ Len(issues[1].items) = 2
  /\ \A k \in 1..2 : IsCompleted(issues[1].items[k])
  /\ \E k \in 1..2 : Timestamp(issues[1].items[k].closed_at) = vnow[1] - SevenDays
  /\ \E k \in 1..2 : Timestamp(issues[1].items[k].closed_at) = vnow[1] - SevenDays + 1

\* the lowest-numbered phase in progress among the computed ones, 0 if none
LowestInProgress(ph) ==
  IF \A n \in Idx(ph) : ph[n].status # "in_progress" THEN 0
  ELSE CHOOSE n \in Idx(ph) :
         ph[n].status = "in_progress" /\ \A q \in Idx(ph) : ph[q].status = "in_progress" => n <= q

\* C3: after a successful run the written current_status.phase and
\* phase_name are those of the lowest-numbered computed phase that is
\* "in_progress"; with no such phase both keep the values of the document
\* that was read.
C3_CurrentPhase ==
  \A p \in Procs : pc[p] = "done" =>
    LET n == LowestInProgress(phases[p])
        cs == WrittenDoc(p).current_status
    IN  /\ Written(p)
        /\ IF n = 0
           THEN /\ cs.phase = ReadDoc(p).current_status.phase
                /\ cs.phase_name = ReadDoc(p).current_status.phase_name
           ELSE cs.phase = n /\ cs.phase_name = phase_names[n]

\* phases 1 and 2 are both in progress, the document read pointed at phase 4
C3_Witness ==
  /\ pc[1] = "done"
  /\ phases[1][1].status = "in_progress" /\ phases[1][2].status = "in_progress"
  /\ ReadDoc(1).current_status.phase = 4
  /\ WrittenDoc(1).current_status.phase = 1

\* C4: after a successful run the written health is "red" when the computed
\* blocked_tasks > 2, "yellow" when it is 1 or 2 and "green" when it is 0,
\* whatever the health that was read.
C4_Health ==
  \A p \in Procs : pc[p] = "done" =>
    LET b == Cardinality({ k \in Idx(issues[p].items) :
                 issues[p].items[k].state = "open" /\ "blocked" \in issues[p].items[k].labels })
        h == WrittenDoc(p).current_status.health
    IN  /\ Written(p)
        /\ b > 2 => h = "red"
        /\ b \in { 1, 2 } => h = "yellow"
        /\ b = 0 => h = "green"
        /\ WrittenDoc(p).metrics["blocked_tasks"] = b

\* three blocked open issues turn a green document red
C4_Witness ==
  /\ pc[1] = "done"
  /\ metrics[1].blocked_tasks = 3
  /\ ReadDoc(1).current_status.health = "green"
  /\ WrittenDoc(1).current_status.health = "red"

\* C5: a successful run leaves every key of the metrics mapping other than
\* total_tasks, completed_tasks, in_progress_tasks, blocked_tasks and
\* velocity, and every key of metrics.velocity other than current, with the
\* value it had in the document that was read.
C5_MetricsFrame ==
  \A p \in Procs : pc[p] = "done" =>
    LET old == ReadDoc(p).metrics
        new == WrittenDoc(p).metrics
    IN  /\ Written(p)
        /\ DOMAIN new = DOMAIN old \cup MetricNames
        /\ \A k \in DOMAIN old \ (MetricNames \cup { "velocity" }) : new[k] = old[k]
        /\ DOMAIN new["velocity"] = DOMAIN old["velocity"] \cup { "current" }
        /\ \A k \in DOMAIN old["velocity"] \ { "current" } :
             new["velocity"][k] = old["velocity"][k]
        /\ \A k \in MetricNames : new[k] = metrics[p][k]
        /\ new["velocity"]["current"] = Round2(velocity[p])

\* a custom metrics key and velocity.target survive a run that changes the counts
C5_Witness ==
  /\ pc[1] = "done"
  /\ ReadDoc(1).metrics["test_coverage"] = 85
  /\ WrittenDoc(1).metrics["test_coverage"] = 85
  /\ WrittenDoc(1).metrics["velocity"]["target"] = 200
  /\ WrittenDoc(1).metrics["total_tasks"] = 3
  /\ WrittenDoc(1).metrics["velocity"]["current"] = 14

\* C6 as stated: a finished run has either overwritten the file once with the
\* full new document or left it as it was before the run.
C6_NoPartialOutcome ==
  \A p \in Procs : Finished(p) =>
    \/ disk = orig[p]
    \/ pc[p] = "done" /\ disk = Serialize(progress[p].doc)

\* C6, amended: a run that fails at the read, the fetch, an aggregation or
\* the opening for writing leaves the file as it was; a run that
\* completes has opened and written it once and the file is the full new
\* document; a run that fails while writing leaves the file holding a proper
\* prefix of the new document, possibly nothing.
C6_Outcomes ==
  \A p \in Procs : Finished(p) =>
    LET text == Serialize(progress[p].doc)
    IN  /\ (pc[p] = "failed" /\ err[p] # "dump") => (disk = orig[p] /\ log = << >>)
        /\ pc[p] = "done" =>
             (disk = text /\ log = << << p, "open" >>, << p, "write" >> >>)
        /\ (pc[p] = "failed" /\ err[p] = "dump") =>
             (IsPrefix(disk, text) /\ Len(disk) < Len(text))

\* the write failed half way: the file is neither the old nor the new document
C6_Witness ==
  /\ pc[1] = "failed" /\ err[1] = "dump"
  /\ disk # orig[1] /\ Len(disk) > 0
  /\ Load(disk).kind = "malformed"

\* an issue list calculate_velocity cannot get through
UnreadableClosedAt(r) ==
  r.is_list /\ \E k \in Idx(r.items) :
    /\ r.items[k].state = "closed" /\ ~r.items[k].pull_request
    /\ r.items[k].closed_at.kind # "iso"

\* C7: a run whose fetch raises or is refused, or that meets a closed
\* non-pull-request issue with a malformed or missing closed_at, never opens
\* the file for writing and leaves it unchanged; the file is opened for
\* writing only after fetch, metrics, velocity and phases have succeeded, and
\* nothing touches the file after the write.
C7_AbortBeforeWrite ==
  \A p \in Procs :
    /\ ( \/ pc[p] = "failed" /\ err[p] \in { "fetch", "metrics", "velocity" }
         \/ pc[p] \notin { "idle", "read", "fetch" } /\ ~issues[p].is_list
         \/ pc[p] \notin { "idle", "read", "fetch" } /\ UnreadableClosedAt(issues[p]) )
       => /\ pc[p] \in { "metrics", "velocity", "failed" }
          /\ err[p] # "dump" /\ err[p] # "open"
          /\ disk = orig[p] /\ log = << >>
    /\ (\E k \in Idx(log) : log[k][1] = p) =>
         /\ pc[p] \in { "dump", "done", "failed" }
         /\ issues[p].is_list
         /\ metrics[p] = get_project_metrics(issues[p].items)
         /\ phases[p] = get_phase_status(issues[p].items)
         /\ progress[p].doc.phases = phases[p]
    /\ \A k \in Idx(log) : log[k][2] \in { "write", "partial" } => k = Len(log)

\* a closed task without closed_at stops the run in calculate_velocity,
\* after the metrics were computed
C7_Witness ==
  /\ pc[1] = "failed" /\ err[1] = "velocity"
  /\ \E k \in Idx(issues[1].items) :
       IsCompleted(issues[1].items[k]) /\ issues[1].items[k].closed_at = NullAt
  /\ metrics[1].completed_tasks > 0
  /\ disk = orig[1]

SecondRunDone(p) ==
  pc[p] = "done" /\ prev[p].ran /\ prev[p].issues = issues[p]

\* C8 as stated: the second of two runs on the same issue list writes the
\* phases and the metrics mapping, velocity.current included, of the first.
C8_Idempotent ==
  \A p \in Procs : SecondRunDone(p) =>
    /\ progress[p].doc.phases = prev[p].doc.phases
    /\ progress[p].doc.metrics = prev[p].doc.metrics

\* C8, amended: the second run writes the phases of the first and its
\* metrics mapping except velocity.current, which is recomputed against the
\* second run's clock: it is the first run's value when no closed
\* non-pull-request issue is inside the 7-day window of one run and outside
\* that of the other, and otherwise differs.
C8_IdempotentButVelocity ==
  \A p \in Procs : SecondRunDone(p) =>
    LET a == prev[p].doc
        b == WrittenDoc(p)
        s == issues[p].items
        crossing == { k \in Idx(s) :
                        /\ IsCompleted(s[k])
                        /\ IsRecent(s[k], prev[p].vnow) # IsRecent(s[k], vnow[p]) }
    IN  /\ Written(p)
        /\ b.phases = a.phases
        /\ DOMAIN b.metrics = DOMAIN a.metrics
        /\ \A k \in DOMAIN a.metrics \ { "velocity" } : b.metrics[k] = a.metrics[k]
        /\ DOMAIN b.metrics["velocity"] = DOMAIN a.metrics["velocity"]
        /\ \A k \in DOMAIN a.metrics["velocity"] \ { "current" } :
             b.metrics["velocity"][k] = a.metrics["velocity"][k]
        /\ (crossing = {}) <=>
             (b.metrics["velocity"]["current"] = a.metrics["velocity"]["current"])

\* the same list fetched twice, a task leaving the window in between
C8_Witness ==
  /\ SecondRunDone(1)
  /\ vnow[1] > prev[1].vnow
  /\ progress[1].doc.phases = prev[1].doc.phases
  /\ prev[1].doc.metrics["velocity"]["current"] = 14
  /\ WrittenDoc(1).metrics["velocity"]["current"] = 0
  /\ WrittenDoc(1).metrics["completed_tasks"] = 1

\* positions in the log
Writes == { k \in Idx(log) : log[k][2] = "write" }
LastWrite == CHOOSE k \in Writes : \A q \in Writes : q <= k
OpenOf(p) == CHOOSE k \in Idx(log) : log[k] = << p, "open" >>
WriteOf(p) == CHOOSE k \in Idx(log) : log[k] = << p, "write" >>
BothWrote == \A p \in Procs : pc[p] = "done"

\* C10 as stated: when both invocations have written, the file is exactly
\* the document of the one that wrote last.
C10_LastWriterWins ==
  BothWrote => disk = Serialize(progress[log[LastWrite][1]].doc)

\* C10, amended: the file begins with the full document of the invocation
\* that wrote last; it is exactly that document when the other invocation's
\* write did not fall between the last writer's opening of the file and its
\* write, and otherwise the other invocation's text, where it is longer,
\* survives behind it.
C10_LastWriterPrefix ==
  BothWrote =>
    LET w == log[LastWrite][1]
        o == CHOOSE q \in Procs : q # w
        mine == Serialize(progress[w].doc)
        theirs == Serialize(progress[o].doc)
    IN  /\ IsPrefix(mine, disk)
        /\ ~(OpenOf(w) < WriteOf(o)) => disk = mine
        /\ OpenOf(w) < WriteOf(o) => disk = Overlay(theirs, mine)
        /\ progress[w].doc.metrics["total_tasks"] = metrics[w].total_tasks

\* both opened before either wrote, and the tail of the first text is left
\* behind the last writer's shorter document
C10_Witness ==
  /\ BothWrote
  /\ log[LastWrite][1] = 2
  /\ OpenOf(2) < WriteOf(1)
  /\ disk # Serialize(progress[2].doc)
  /\ Len(disk) = Len(Serialize(progress[1].doc))
  /\ Load(disk).kind = "malformed"

====
